---- MODULE Spec2Model ----
(***************************************************************************)
(* A model of the CEX.IO client of src/index.js (the class CEXIO that      *)
(* starts at line 186 and the helpers maxDpStr, parseObjectStrings and     *)
(* transformString below it).                                              *)
(*                                                                         *)
(* JavaScript values are records [t, v]: t is the type tag, v the payload. *)
(* A JavaScript string is a sequence of one-character strings, so that     *)
(* parseFloat and sprintf can be modelled character by character.  A       *)
(* JavaScript number is a decimal  m * 10^e  kept normalised (m has no     *)
(* trailing zero, zero is m = 0, e = 0).                                   *)
(***************************************************************************)
EXTENDS Integers, Sequences, FiniteSets, TLC

VARIABLES
    client,             \* the CEXIO instance: its fields after construction
    defaultReqOptions,  \* the module-level default request options
    now,                \* the clock that Date.now() reads
    calls,              \* the method calls issued so far, in the order of issue
    pin,                \* the input of a helper applied on its own
    pout                \* the helper applied to pin, and what it returned

vars == <<client, defaultReqOptions, now, calls, pin, pout>>

(*************************** JavaScript values ****************************)

Undefined == [t |-> "undefined", v |-> 0]
Null == [t |-> "null", v |-> 0]
Bool(b) == [t |-> "bool", v |-> b]
Str(s) == [t |-> "str", v |-> s]
Arr(s) == [t |-> "arr", v |-> s]
Obj(f) == [t |-> "obj", v |-> f]
NaN == [t |-> "num", v |-> [nan |-> TRUE, m |-> 0, e |-> 0]]

RECURSIVE Normalise(_, _)
Normalise(m, e) ==
    IF m = 0 THEN [nan |-> FALSE, m |-> 0, e |-> 0]
    ELSE IF m % 10 = 0 THEN Normalise(m \div 10, e + 1)
    ELSE [nan |-> FALSE, m |-> m, e |-> e]

\* the number m * 10^e
Num(m, e) == [t |-> "num", v |-> Normalise(m, e)]

JsInt(n) == Num(n, 0)

IsNaN(x) == x.t = "num" /\ x.v.nan

\* a === b on the values of the model
SameValue(a, b) == a.t = b.t /\ a.v = b.v

\* a parameter or destructured field with a default: the default replaces undefined
Default(x, d) == IF x.t = "undefined" THEN d ELSE x

DigitChars == <<"0", "1", "2", "3", "4", "5", "6", "7", "8", "9">>

IsDigit(c) == \E i \in 1..10 : DigitChars[i] = c

DigitVal(c) == (CHOOSE i \in 1..10 : DigitChars[i] = c) - 1

RECURSIVE Pow10(_)
Pow10(k) == IF k <= 0 THEN 1 ELSE 10 * Pow10(k - 1)

RECURSIVE Zeros(_)
Zeros(k) == IF k <= 0 THEN <<>> ELSE <<"0">> \o Zeros(k - 1)

\* the decimal digits of a natural number, most significant first
RECURSIVE NatToStr(_)
NatToStr(n) ==
    IF n < 10 THEN <<DigitChars[n + 1]>>
    ELSE NatToStr(n \div 10) \o <<DigitChars[(n % 10) + 1]>>

\* the value of a run of digit characters
RECURSIVE DigitsVal(_)
DigitsVal(s) ==
    IF s = <<>> THEN 0
    ELSE 10 * DigitsVal(SubSeq(s, 1, Len(s) - 1)) + DigitVal(s[Len(s)])

\* how many digit characters s has from position i on
RECURSIVE DigitRun(_, _)
DigitRun(s, i) ==
    IF i <= Len(s) /\ IsDigit(s[i]) THEN 1 + DigitRun(s, i + 1) ELSE 0

\* how many white-space characters s has from position i on
RECURSIVE SpaceRun(_, _)
SpaceRun(s, i) ==
    IF i <= Len(s) /\ s[i] = " " THEN 1 + SpaceRun(s, i + 1) ELSE 0

At(s, i) == IF i >= 1 /\ i <= Len(s) THEN s[i] ELSE ""

(***************************************************************************)
(* The longest prefix of s, after leading white space, that is a           *)
(* StrDecimalLiteral: [+-] digits [. digits] [e [+-] digits], with at      *)
(* least one digit in the mantissa.  ok is FALSE when there is none; last  *)
(* is the position of the last character the literal uses.                 *)
(***************************************************************************)
ScanExponent(s, ok, neg, mant, nFrac, i0, i2) ==
    LET i3 == IF At(s, i2 + 1) \in {"-", "+"} THEN i2 + 2 ELSE i2 + 1
        nExp == IF At(s, i2) \in {"e", "E"} THEN DigitRun(s, i3) ELSE 0
        expVal == DigitsVal(SubSeq(s, i3, i3 + nExp - 1))
        expNeg == At(s, i2 + 1) = "-"
    IN  [ok |-> ok,
         neg |-> neg,
         mant |-> mant,
         exp |-> (IF expNeg THEN 0 - expVal ELSE expVal) - nFrac,
         first |-> i0,
         last |-> IF nExp > 0 THEN i3 + nExp - 1 ELSE i2 - 1]

ScanFraction(s, neg, i0, i1, nInt, nFrac) ==
    ScanExponent(s, nInt + nFrac >= 1, neg,
                 DigitsVal(SubSeq(s, i1, i1 + nInt - 1)
                           \o SubSeq(s, i1 + nInt + 1, i1 + nInt + nFrac)),
                 nFrac, i0,
                 IF At(s, i1 + nInt) = "." THEN i1 + nInt + 1 + nFrac ELSE i1 + nInt)

ScanMantissa(s, neg, i0, i1, nInt) ==
    ScanFraction(s, neg, i0, i1, nInt,
                 IF At(s, i1 + nInt) = "." THEN DigitRun(s, i1 + nInt + 1) ELSE 0)

ScanSign(s, i0) ==
    ScanMantissa(s, At(s, i0) = "-", i0,
                 IF At(s, i0) \in {"-", "+"} THEN i0 + 1 ELSE i0,
                 DigitRun(s, IF At(s, i0) \in {"-", "+"} THEN i0 + 1 ELSE i0))

ScanNumber(s) == ScanSign(s, 1 + SpaceRun(s, 1))

Abs(n) == IF n < 0 THEN 0 - n ELSE n

\* the digits ds with a decimal point before the last k of them
PointBefore(ds, k) ==
    SubSeq(ds, 1, Len(ds) - k) \o <<".">> \o SubSeq(ds, Len(ds) - k + 1, Len(ds))

\* ds with zeros in front, so that it has at least n digits
PadLeft(ds, n) == Zeros(n - Len(ds)) \o ds

\* Number.prototype.toString for the numbers of the model (decimal notation)
NumToStr(x) ==
    IF x.v.nan THEN <<"N", "a", "N">>
    ELSE (IF x.v.m < 0 THEN <<"-">> ELSE <<>>)
         \o (IF x.v.e >= 0 THEN NatToStr(Abs(x.v.m)) \o Zeros(x.v.e)
             ELSE PointBefore(PadLeft(NatToStr(Abs(x.v.m)), 1 - x.v.e), 0 - x.v.e))

\* ToString of the values handed to parseFloat
JsToString(x) ==
    CASE x.t = "str" -> x.v
      [] x.t = "num" -> NumToStr(x)
      [] x.t = "undefined" -> <<"u", "n", "d", "e", "f", "i", "n", "e", "d">>
      [] x.t = "null" -> <<"n", "u", "l", "l">>
      [] x.t = "bool" -> IF x.v THEN <<"t", "r", "u", "e">> ELSE <<"f", "a", "l", "s", "e">>
      [] OTHER -> <<"[", "o", "b", "j", "e", "c", "t", "]">>

\* the built-in parseFloat: the number of the longest numeric prefix, or NaN
NumberScanned(sc) ==
    IF ~sc.ok THEN NaN ELSE Num(IF sc.neg THEN 0 - sc.mant ELSE sc.mant, sc.exp)

parseFloat(x) == NumberScanned(ScanNumber(JsToString(x)))

\* m rounded half up to a multiple of d, in units of d
RoundDiv(m, d) == (m + (d \div 2)) \div d

\* the digits ds, the last dp of them after a decimal point
Fixed(ds, dp) ==
    IF dp > 0 THEN PointBefore(PadLeft(ds, dp + 1), dp) ELSE ds

(***************************************************************************)
(* sprintf('%.<dp>f', val): the integer part, a point and exactly dp       *)
(* fractional digits, rounded half up on the magnitude.                    *)
(***************************************************************************)
sprintf(dp, val) ==
    (IF val.v.m < 0 THEN <<"-">> ELSE <<>>)
    \o (IF 0 - val.v.e <= dp
        THEN Fixed(NatToStr(Abs(val.v.m)) \o Zeros(val.v.e + dp), dp)
        ELSE Fixed(NatToStr(RoundDiv(Abs(val.v.m), Pow10(0 - val.v.e - dp))), dp))

DefaultDp == 8

\* maxDpStr as it would be with the number printed in full instead of through sprintf
maxDpStrUnformatted(str, dp) ==
    IF IsNaN(parseFloat(Default(str, Str(<<>>))))
    THEN Default(str, Str(<<>>))
    ELSE Str(NumToStr(parseFloat(Default(str, Str(<<>>)))))

\* val unless it is NaN, then str
FormatUnlessNaN(str, dp, val) == IF IsNaN(val) THEN str ELSE Str(sprintf(dp, val))

\* maxDpStr(str = '', dp = 8)
maxDpStr(str, dp) ==
    FormatUnlessNaN(Default(str, Str(<<>>)), dp, parseFloat(Default(str, Str(<<>>))))

NumberUnlessNaN(val, floatVal) == IF ~IsNaN(floatVal) THEN floatVal ELSE val

transformString(val) == NumberUnlessNaN(val, parseFloat(val))

RECURSIVE parseObjectStrings(_)

\* parseObjectStrings as it would be if the array branch dropped null elements
RECURSIVE parseObjectStringsCompact(_)
parseObjectStringsCompact(val) ==
    IF val.t = "arr"
    THEN Arr(SelectSeq([i \in DOMAIN val.v |-> parseObjectStringsCompact(val.v[i])],
                       LAMBDA x : x.t # "null"))
    ELSE IF val.t = "obj"
    THEN Obj([k \in DOMAIN val.v |-> parseObjectStringsCompact(val.v[k])])
    ELSE IF val.t = "str" THEN transformString(val)
    ELSE val

parseObjectStrings(val) ==
    IF val.t = "arr" THEN Arr([i \in DOMAIN val.v |-> parseObjectStrings(val.v[i])])
    ELSE IF val.t = "obj" THEN Obj([k \in DOMAIN val.v |-> parseObjectStrings(val.v[k])])
    ELSE IF val.t = "str" THEN transformString(val)
    ELSE val

(***************************** JavaScript glue *****************************)

\* the truthiness of a value: !x is ~Truthy(x)
Truthy(x) ==
    CASE x.t = "undefined" -> FALSE
      [] x.t = "null" -> FALSE
      [] x.t = "bool" -> x.v
      [] x.t = "num" -> ~x.v.nan /\ x.v.m # 0
      [] x.t = "str" -> x.v # <<>>
      [] OTHER -> TRUE

\* the property read x[k]; undefined when x has no such property
Get(x, k) == IF x.t = "obj" /\ k \in DOMAIN x.v THEN x.v[k] ELSE Undefined

\* x === the string s
IsString(x, s) == x.t = "str" /\ x.v = s

\* a || b
Or(a, b) == IF Truthy(a) THEN a ELSE b

\* Object.assign({}, a, b) on two mappings
Assign(a, b) ==
    [k \in DOMAIN a \cup DOMAIN b |-> IF k \in DOMAIN b THEN b[k] ELSE a[k]]

\* Object.assign(target, source) on JavaScript objects; an undefined source adds nothing
ObjectAssign(target, source) ==
    IF source.t = "obj" THEN Obj(Assign(target.v, source.v)) ELSE target

\* the characters of a JavaScript string as one string of the model
RECURSIVE Text(_)
Text(cs) == IF cs = <<>> THEN "" ELSE cs[1] \o Text(Tail(cs))

\* [url, ccy1, ccy2].join('/'): undefined and null join as the empty string
JoinArg(x) == IF x.t \in {"undefined", "null"} THEN "" ELSE Text(JsToString(x))

Join3(url, ccy1, ccy2) == url \o "/" \o JoinArg(ccy1) \o "/" \o JoinArg(ccy2)

LowerOf == [L |-> "l", O |-> "o", N |-> "n", G |-> "g", S |-> "s", H |-> "h", R |-> "r", T |-> "t"]

\* String.prototype.toLowerCase on the letters the model uses
toLowerCase(x) ==
    Str([i \in DOMAIN x.v |-> IF x.v[i] \in DOMAIN LowerOf THEN LowerOf[x.v[i]] ELSE x.v[i]])

\* querystring's stringifyPrimitive: strings, finite numbers and booleans, else ''
stringifyPrimitive(x) ==
    CASE x.t = "str" -> x.v
      [] x.t = "num" -> IF x.v.nan THEN <<>> ELSE NumToStr(x)
      [] x.t = "bool" -> JsToString(x)
      [] OTHER -> <<>>

\* the pairs key=value that querystring.stringify writes for one field
FieldPairs(k, x) ==
    IF x.t = "arr"
    THEN [i \in DOMAIN x.v |-> Len(k) + 1 + Len(stringifyPrimitive(x.v[i]))]
    ELSE <<Len(k) + 1 + Len(stringifyPrimitive(x))>>

RECURSIVE SumSeq(_)
SumSeq(q) == IF q = <<>> THEN 0 ELSE Head(q) + SumSeq(Tail(q))

\* the pair lengths of all the fields in keys
RECURSIVE AllPairs(_, _)
AllPairs(params, keys) ==
    IF keys = {} THEN <<>>
    ELSE LET k == CHOOSE x \in keys : TRUE
         IN  FieldPairs(k, params.v[k]) \o AllPairs(params, keys \ {k})

\* the length of the pairs joined by &
JoinedLength(pairs) == SumSeq(pairs) + (IF pairs = <<>> THEN 0 ELSE Len(pairs) - 1)

(***************************************************************************)
(* querystring.stringify(params).  fields is the mapping the server        *)
(* decodes from the string: one string per field, one string per element   *)
(* for a sequence; length is the length of the string (the pairs joined    *)
(* by &).                                                                  *)
(***************************************************************************)
querystringStringify(params) ==
    [fields |->
        [k \in DOMAIN params.v |->
            IF params.v[k].t = "arr"
            THEN [i \in DOMAIN params.v[k].v |-> stringifyPrimitive(params.v[k].v[i])]
            ELSE stringifyPrimitive(params.v[k])],
     length |-> JoinedLength(AllPairs(params, DOMAIN params.v))]

\* hmac.digest('hex') of HMAC-SHA256(secret, message): a term over its two inputs,
\* marked lower case
hmacDigestHex(secret, message) == <<"h", "(">> \o secret \o <<"|">> \o message \o <<")">>

\* toUpperCase of a hex digest
toUpperCase(digest) == <<"H">> \o Tail(digest)

\* JSON.parse of the texts the model uses: a number, or a sequence of at most one number
JsonNumberScanned(s, sc) ==
    sc.ok /\ sc.first = 1 /\ sc.last = Len(s) /\ s[1] \notin {"+", "."}

JsonNumber(s) == JsonNumberScanned(s, ScanNumber(s))

Bracketed(s) == Len(s) >= 2 /\ s[1] = "[" /\ s[Len(s)] = "]"

JsonText(s) ==
    IF JsonNumber(s) THEN [threw |-> FALSE, val |-> parseFloat(Str(s))]
    ELSE IF Bracketed(s) /\ Len(s) = 2 THEN [threw |-> FALSE, val |-> Arr(<<>>)]
    ELSE IF Bracketed(s) /\ JsonNumber(SubSeq(s, 2, Len(s) - 1))
    THEN [threw |-> FALSE, val |-> Arr(<<parseFloat(Str(SubSeq(s, 2, Len(s) - 1)))>>)]
    ELSE [threw |-> TRUE, val |-> Undefined]

JSONparse(x) == JsonText(JsToString(x))

(******************************* The client *******************************)

MaxCalls == 2
MaxClock == 1
MaxRetries == 1

DefaultReqOptions ==
    [baseUrl |-> "https://cex.io/api/",
     headers |-> [UserAgent |-> "Mozilla/4.0 (Node.js CEXIO client)",
                  ContentType |-> "application/x-www-form-urlencoded"],
     json |-> TRUE]

defaultRetryOptions == [retries |-> 10, factor |-> 2, minTimeout |-> 500, maxTimeout |-> 10000]

\* process.env: none of the CEXIO_ variables is set
ProcessEnv ==
    [CEXIO_CLIENT_ID |-> Undefined, CEXIO_KEY |-> Undefined, CEXIO_SECRET |-> Undefined,
     CEXIO_CCY_1 |-> Undefined, CEXIO_CCY_2 |-> Undefined]

\* new CEXIO(args, req): req is "injected" when a request function is passed,
\* "default" when the client wraps request in retry(.., retryParams)
Constructor(args, req) ==
    [clientId |-> Or(args.clientId, ProcessEnv.CEXIO_CLIENT_ID),
     key |-> Or(args.key, ProcessEnv.CEXIO_KEY),
     secret |-> Or(args.secret, ProcessEnv.CEXIO_SECRET),
     ccy1 |-> Or(args.ccy1, ProcessEnv.CEXIO_CCY_1),
     ccy2 |-> Or(args.ccy2, ProcessEnv.CEXIO_CCY_2),
     retryParams |-> Assign(defaultRetryOptions, args.retryOptions),
     req |-> req]

\* the constructor arguments with the pair of the tests, the credentials cr and
\* a retry policy that overrides retries
CreationArgsWith(cr, r) ==
    [ccy1 |-> Str(<<"B", "T", "C">>), ccy2 |-> Str(<<"E", "U", "R">>),
     clientId |-> cr[1], key |-> cr[2], secret |-> cr[3],
     retryOptions |-> [retries |-> r]]

\* clientId, key and secret as the tests pass them
AllCredentials == <<Str(<<"i", "d">>), Str(<<"k">>), Str(<<"s">>)>>

\* the same with one credential left out
IncompleteCredentials ==
    { [AllCredentials EXCEPT ![n] = Undefined] : n \in 1..3 }

\* the constructor arguments of the model
CreationArgs ==
    {CreationArgsWith(AllCredentials, r) : r \in 0..MaxRetries}
        \cup {CreationArgsWith(cr, 0) : cr \in IncompleteCredentials}

(***************************************************************************)
(* A request handed to this.req.  A field that _.omitBy(.., _.isUndefined) *)
(* drops is undefined here; body is the decoded form of the POST body and  *)
(* empty for a GET.                                                        *)
(***************************************************************************)
NoBody == <<>>

\* _get(url, qs) up to its await: the request it hands to this.req
get(url, qs) ==
    [method |-> "GET",
     baseUrl |-> defaultReqOptions.baseUrl,
     headers |-> defaultReqOptions.headers,
     json |-> defaultReqOptions.json,
     url |-> url,
     qs |-> qs,
     body |-> NoBody]

\* _getPair(url, qs, ccy1 = this.ccy1, ccy2 = this.ccy2)
getPair(url, qs, ccy1, ccy2) ==
    get(Join3(url, Default(ccy1, client.ccy1), Default(ccy2, client.ccy2)), qs)

\* _post(url, body): the request it hands to this.req
post(url, body) ==
    [method |-> "POST",
     baseUrl |-> defaultReqOptions.baseUrl,
     headers |-> Assign(defaultReqOptions.headers,
                        [ContentLength |-> body.length]),
     json |-> defaultReqOptions.json,
     url |-> url,
     qs |-> Undefined,
     body |-> body.fields]

\* the signature _postAuth computes for a nonce: lines 287-291
Signature(nonce) ==
    Str(toUpperCase(hmacDigestHex(client.secret.v,
            NumToStr(nonce) \o JsToString(client.clientId) \o JsToString(client.key))))

\* _postAuth(path, params): new Buffer(undefined) throws when there is no secret
postAuth(path, params) ==
    IF client.secret.t # "str"
    THEN [threw |-> TRUE, error |-> "TypeError", nonce |-> JsInt(now),
          req |-> get("", Undefined)]
    ELSE [threw |-> FALSE, error |-> "", nonce |-> JsInt(now),
          req |-> post(path, querystringStringify(
                    ObjectAssign(
                        ObjectAssign(Obj([nonce |-> JsInt(now), key |-> client.key]), params),
                        Obj([signature |-> Signature(JsInt(now))]))))]

\* _postAuthPair(path, params, ccy1 = this.ccy1, ccy2 = this.ccy2)
postAuthPair(path, params, ccy1, ccy2) ==
    postAuth(Join3(path, Default(ccy1, client.ccy1), Default(ccy2, client.ccy2)), params)

\* _postPair(url, body, ccy1 = this.ccy1, ccy2 = this.ccy2)
postPair(url, body, ccy1, ccy2) ==
    postAuth(Join3(url, Default(ccy1, client.ccy1), Default(ccy2, client.ccy2)), body)

\* a request built without a nonce
issued(req) == [threw |-> FALSE, error |-> "", nonce |-> Undefined, req |-> req]

(************************ What a call does on a reply **********************)

Returned(v) == [st |-> "returned", err |-> "", val |-> v]

\* a thrown Error(message) whose data property, if set, is data
Failed(message, data) == [st |-> "failed", err |-> message, val |-> data]

\* _get after its await: lines 204-205
getThen(res) ==
    IF ~Truthy(res) \/ (Truthy(Get(res, "ok")) /\ ~IsString(Get(res, "ok"), <<"o", "k">>))
    THEN Failed("result not ok", Undefined)
    ELSE Returned(parseObjectStrings(IF Truthy(Get(res, "data")) THEN Get(res, "data") ELSE res))

\* lastPrice after _getPair gave got
lastPriceOf(got) ==
    IF got.st = "failed" THEN got
    ELSE IF ~Truthy(got.val) \/ ~Truthy(Get(got.val, "lprice"))
    THEN Failed("Unexpected response", Undefined)
    ELSE Returned(parseFloat(Get(got.val, "lprice")))

lastPriceThen(payload) == lastPriceOf(getThen(payload))

convertThen(res) ==
    IF ~Truthy(res) \/ ~Truthy(Get(res, "amnt"))
    THEN Failed("Unexpected response", Undefined)
    ELSE Returned(parseFloat(Get(res, "amnt")))

priceStatsThen(result) == Returned(parseObjectStrings(result))

ohlcvParsed(result, parsed) ==
    IF parsed.threw THEN Failed("SyntaxError", Undefined)
    ELSE Returned(Obj([time |-> Get(result, "time"), data1m |-> parsed.val]))

\* ohlcv after _getPair gave got
ohlcvOf(got) ==
    IF got.st = "failed" THEN got
    ELSE IF ~Truthy(got.val) THEN Failed("Could not get open orders", got.val)
    ELSE ohlcvParsed(got.val, JSONparse(Get(got.val, "data1m")))

ohlcvThen(payload) == ohlcvOf(getThen(payload))

\* balance, and openOrders without a pair, after the await
balanceThen(result) ==
    IF ~Truthy(result) THEN Failed("Could not get open orders", result)
    ELSE Returned(parseObjectStrings(result))

\* openOrders(ccy1, ccy2): with a pair it returns the promise of _postAuthPair
openOrdersThen(ccy1, ccy2, result) ==
    IF Truthy(ccy1) /\ Truthy(ccy2) THEN Returned(result) ELSE balanceThen(result)

\* activeOrdersStatus, openPositions, closePosition, openPosition after the await
okDataThen(message, result) ==
    IF ~Truthy(result) \/ ~IsString(Get(result, "ok"), <<"o", "k">>)
    THEN Failed(message, result)
    ELSE Returned(parseObjectStrings(Get(result, "data")))

\* what the method ep, called with args, does with the payload of this.req
Continue(ep, args, payload) ==
    CASE ep \in {"currencyLimits", "ticker", "orderBook"} -> getThen(payload)
      [] ep = "lastPrice" -> lastPriceThen(payload)
      [] ep = "convert" -> convertThen(payload)
      [] ep = "priceStats" -> priceStatsThen(payload)
      [] ep = "ohlcv" -> ohlcvThen(payload)
      [] ep = "_postAuth" -> Returned(payload)
      [] ep = "balance" -> balanceThen(payload)
      [] ep = "openOrders" -> openOrdersThen(Get(args, "ccy1"), Get(args, "ccy2"), payload)
      [] ep = "activeOrdersStatus" -> okDataThen("Could not get active order statuses", payload)
      [] ep = "openPositions" -> okDataThen("Could not get open positions", payload)
      [] ep = "closePosition" -> okDataThen("Could not close position", payload)
      [] ep = "openPosition" -> okDataThen("Could not open position", payload)

(************************** The arguments of calls *************************)

USD == Str(<<"U", "S", "D">>)
LTC == Str(<<"L", "T", "C">>)

\* (ccy1, ccy2) as a caller passes them: both or none
BothOrNone == {<<Undefined, Undefined>>, <<USD, LTC>>}

\* parameter mappings handed to _postAuth directly
AuthParams ==
    { Undefined,
      Obj([nonce |-> JsInt(9)]),
      Obj([key |-> Str(<<"x">>), signature |-> Str(<<"f">>)]) }

OpenPositionArgs ==
    { Obj([amount |-> JsInt(1), ptype |-> Str(<<"L", "O", "N", "G">>), leverage |-> JsInt(2),
           eoprice |-> Num(6503232, -4), stopLossPrice |-> Num(6503232, -4)]),
      Obj([amount |-> Num(25, -1), eoprice |-> JsInt(650), anySlippage |-> Bool(FALSE),
           symbol |-> USD]) }

\* decoded payloads a transport answers with
Payloads ==
    { Undefined,
      Obj([ok |-> Str(<<"o", "k">>),
           data |-> Arr(<<Obj([id |-> Str(<<"7">>), symbol |-> Str(<<"B", "T", "C">>)])>>)]),
      Obj([ok |-> Str(<<"e", "r", "r", "o", "r">>), error |-> Str(<<"N", "o">>)]),
      Obj([lprice |-> Str(<<"4", "0", "0", ".", "0", "0">>), amnt |-> Str(<<"2", ".", "5">>),
           time |-> JsInt(20170701), data1m |-> Str(<<"[", "1", "]">>)]),
      Obj([lprice |-> Str(<<"0">>), amnt |-> Str(<<"0">>)]) }

(******************************** The state ********************************)

NoCall == [fn |-> "none", out |-> Undefined]

Init ==
    /\ client \in {Constructor(a, r) : a \in CreationArgs, r \in {"default", "injected"}}
    /\ defaultReqOptions = DefaultReqOptions
    /\ now = 0
    /\ calls = <<>>
    /\ pin = Undefined
    /\ pout = NoCall

\* Date.now() advances
Tick ==
    /\ now < MaxClock
    /\ now' = now + 1
    /\ UNCHANGED <<client, defaultReqOptions, calls, pin, pout>>

\* optionsAfter as it would be if _post assigned Content-Length into the
\* headers object it got from defaultReqOptions
optionsAfterSharedHeaders(req) == [defaultReqOptions EXCEPT !.headers = req.headers]

\* defaultReqOptions after _get or _post built the request req: both assign
\* into a new object, Object.assign({}, defaultReqOptions, ..), and _post
\* into new headers, Object.assign({}, requestParams.headers, ..)
optionsAfter(req) == defaultReqOptions

(***************************************************************************)
(* A method is called: it runs to its first await.  r is what building the *)
(* request gave: the request handed to this.req, or the exception thrown   *)
(* before any request was made.                                            *)
(***************************************************************************)
StartCall(ep, args, r) ==
    /\ Len(calls) < MaxCalls
    /\ defaultReqOptions' = optionsAfter(r.req)
    /\ calls' = Append(calls,
            [ep |-> ep, args |-> args, req |-> r.req, nonce |-> r.nonce,
             st |-> IF r.threw THEN "failed" ELSE "pending",
             err |-> r.error, val |-> Undefined,
             attempts |-> IF r.threw THEN 0 ELSE 1,
             sent |-> IF r.threw THEN <<>> ELSE <<r.req>>,
             log |-> <<>>])
    /\ UNCHANGED <<client, now, pin, pout>>

NoArgs == Obj(<<>>)

PairArgs(p) == Obj([ccy1 |-> p[1], ccy2 |-> p[2]])

currencyLimits == StartCall("currencyLimits", NoArgs, issued(get("currency_limits", Undefined)))

ticker ==
    StartCall("ticker", NoArgs, issued(getPair("ticker", Undefined, Undefined, Undefined)))

lastPrice ==
    StartCall("lastPrice", NoArgs, issued(getPair("last_price", Undefined, Undefined, Undefined)))

convert ==
    \E p \in BothOrNone :
        StartCall("convert", Obj([amnt |-> Num(25, -1), ccy1 |-> p[1], ccy2 |-> p[2]]),
                  postPair("convert", Obj([amnt |-> maxDpStr(Num(25, -1), DefaultDp)]), p[1], p[2]))

priceStats ==
    \E p \in {<<USD, LTC>>}, lastHours \in {Undefined} :
        StartCall("priceStats",
                  Obj([lastHours |-> lastHours, maxItems |-> JsInt(100), ccy1 |-> p[1], ccy2 |-> p[2]]),
                  postPair("price_stats",
                           Obj([lastHours |-> Default(lastHours, JsInt(24)),
                                maxRespArrSize |-> Default(JsInt(100), JsInt(200))]),
                           p[1], p[2]))

\* ohlcv hands (url, ccy1, ccy2) to _getPair(url, qs, ccy1, ccy2)
ohlcv ==
    \E p \in BothOrNone :
        StartCall("ohlcv", Obj([dateString |-> Str(<<"2", "0", "1", "7">>), ccy1 |-> p[1], ccy2 |-> p[2]]),
                  issued(getPair("ohlcv/hd/" \o Text(<<"2", "0", "1", "7">>), p[1], p[2], Undefined)))

orderBook ==
    \E p \in BothOrNone :
        StartCall("orderBook", Obj([depth |-> JsInt(5), ccy1 |-> p[1], ccy2 |-> p[2]]),
                  issued(getPair("order_book", Obj([depth |-> JsInt(5)]), p[1], p[2])))

\* _postAuth called by the user of the class, with any path and parameters
postAuthCall ==
    \E params \in AuthParams :
        StartCall("_postAuth", Obj([params |-> params]), postAuth("private", params))

balance == StartCall("balance", NoArgs, postAuth("balance/", Undefined))

openOrders ==
    \E p \in BothOrNone :
        StartCall("openOrders", PairArgs(p),
                  IF Truthy(p[1]) /\ Truthy(p[2])
                  THEN postAuthPair("open_orders", Undefined, p[1], p[2])
                  ELSE postAuth("open_orders", Undefined))

activeOrdersStatus ==
    \E orderList \in {Arr(<<Str(<<"8">>), Str(<<"9">>)>>)} :
        StartCall("activeOrdersStatus", Obj([orderList |-> orderList]),
                  postAuth("active_orders_status", Obj([orders_list |-> orderList])))

openPositions ==
    \E p \in BothOrNone :
        StartCall("openPositions", PairArgs(p),
                  postAuthPair("open_positions", Undefined, p[1], p[2]))

closePosition ==
    \E p \in {<<Undefined, Undefined>>} :
        StartCall("closePosition", Obj([id |-> JsInt(7), ccy1 |-> p[1], ccy2 |-> p[2]]),
                  postAuthPair("close_position", Obj([id |-> JsInt(7)]), p[1], p[2]))

\* openPositionParams as it would be if ptype were sent as given and leverage
\* had no default
openPositionParamsAsGiven(args) ==
    Obj([amount |-> maxDpStr(Str(JsToString(Get(args, "amount"))), DefaultDp),
         symbol |-> Default(Get(args, "symbol"), client.ccy1),
         msymbol |-> Default(Get(args, "msymbol"), client.ccy1),
         ptype |-> Default(Get(args, "ptype"), Str(<<"l", "o", "n", "g">>)),
         anySlippage |-> IF Truthy(Default(Get(args, "anySlippage"), Bool(TRUE)))
                         THEN Str(<<"t", "r", "u", "e">>)
                         ELSE Str(<<"f", "a", "l", "s", "e">>),
         leverage |-> Str(JsToString(Get(args, "leverage"))),
         eoprice |-> maxDpStr(Str(JsToString(Get(args, "eoprice"))), DefaultDp),
         stopLossPrice |-> maxDpStr(IF Truthy(Get(args, "stopLossPrice"))
                                    THEN Str(JsToString(Get(args, "stopLossPrice")))
                                    ELSE Undefined, DefaultDp)])

\* the params openPosition builds from its destructured argument: lines 363-383
openPositionParams(args) ==
    Obj([amount |-> maxDpStr(Str(JsToString(Get(args, "amount"))), DefaultDp),
         symbol |-> Default(Get(args, "symbol"), client.ccy1),
         msymbol |-> Default(Get(args, "msymbol"), client.ccy1),
         ptype |-> toLowerCase(Default(Get(args, "ptype"), Str(<<"l", "o", "n", "g">>))),
         anySlippage |-> IF Truthy(Default(Get(args, "anySlippage"), Bool(TRUE)))
                         THEN Str(<<"t", "r", "u", "e">>)
                         ELSE Str(<<"f", "a", "l", "s", "e">>),
         leverage |-> Str(JsToString(Default(Get(args, "leverage"), JsInt(3)))),
         eoprice |-> maxDpStr(Str(JsToString(Get(args, "eoprice"))), DefaultDp),
         stopLossPrice |-> maxDpStr(IF Truthy(Get(args, "stopLossPrice"))
                                    THEN Str(JsToString(Get(args, "stopLossPrice")))
                                    ELSE Undefined, DefaultDp)])

openPosition ==
    \E args \in OpenPositionArgs :
        StartCall("openPosition", args,
                  postAuthPair("open_position", openPositionParams(args), Undefined, Undefined))

(***************************************************************************)
(* this.req.  With the default transport it is retry(() => request(params),*)
(* retryParams): a failed attempt is followed by another while fewer than  *)
(* retries have been, and the last rejection is the wrapper's.  An         *)
(* injected request function is called once.                               *)
(***************************************************************************)
\* MayRetry as it would be if the wrapper allowed one attempt too many
MayRetryOnceMore(c) == client.req = "default" /\ c.attempts <= client.retryParams.retries + 1

\* after a failed attempt of call c, another attempt follows
MayRetry(c) == client.req = "default" /\ c.attempts <= client.retryParams.retries

\* the rejection of attempt n: every attempt rejects with an error of its own
AttemptError(n) == "transport error " \o Text(NatToStr(n))

RECURSIVE Power(_, _)
Power(b, n) == IF n = 0 THEN 1 ELSE b * Power(b, n - 1)

Min(a, b) == IF a < b THEN a ELSE b

\* no timer is set after an attempt
NoDelay == 0 - 1

\* createTimeout as it would be if the first retry already waited factor times
\* minTimeout
createTimeoutFromFactor(k, opts) ==
    Min(opts.minTimeout * Power(opts.factor, k + 1), opts.maxTimeout)

\* the timeout the retry wrapper sets before retry number k (k = 0 for the
\* first retry): Math.min(Math.round(minTimeout * Math.pow(factor, k)), maxTimeout)
createTimeout(k, opts) == Min(opts.minTimeout * Power(opts.factor, k), opts.maxTimeout)

\* call c, its attempt answered with payload, ends as out
Answered(c, payload, out) ==
    [c EXCEPT !.st = out.st, !.err = out.err, !.val = out.val,
              !.log = Append(c.log, [ok |-> TRUE, payload |-> payload, delay |-> NoDelay])]

\* the attempt in flight of call i is answered with a decoded payload
TransportReplies(i, payload) ==
    /\ calls[i].st = "pending"
    /\ calls' = [calls EXCEPT ![i] =
            Answered(calls[i], payload, Continue(calls[i].ep, calls[i].args, payload))]
    /\ UNCHANGED <<client, defaultReqOptions, now, pin, pout>>

\* call c after its attempt in flight failed
Rejected(c) ==
    IF MayRetry(c)
    THEN [c EXCEPT !.st = "backoff",
                   !.log = Append(c.log, [ok |-> FALSE, payload |-> Undefined,
                                          delay |-> createTimeout(c.attempts - 1, client.retryParams)])]
    ELSE [c EXCEPT !.st = "failed", !.err = AttemptError(c.attempts),
                   !.log = Append(c.log, [ok |-> FALSE, payload |-> Undefined, delay |-> NoDelay])]

\* the attempt in flight of call i fails
TransportFails(i) ==
    /\ calls[i].st = "pending"
    /\ calls' = [calls EXCEPT ![i] = Rejected(calls[i])]
    /\ UNCHANGED <<client, defaultReqOptions, now, pin, pout>>

\* Resent as it would be if every attempt took a nonce of its own
ResentWithNewNonce(c) ==
    IF c.req.method = "POST"
    THEN [c.req EXCEPT !.body = [@ EXCEPT !.nonce = NumToStr(JsInt(now))]]
    ELSE c.req

\* the request of another attempt of call c: the function retried is
\* () => request(params), with the params this.req was called with
Resent(c) == c.req

\* the retry timer of call i fires: the next attempt is made
RetryAttempt(i) ==
    /\ calls[i].st = "backoff"
    /\ calls' = [calls EXCEPT ![i] = [@ EXCEPT !.st = "pending", !.attempts = @ + 1,
                                                !.sent = Append(@, Resent(calls[i]))]]
    /\ UNCHANGED <<client, defaultReqOptions, now, pin, pout>>

Next ==
    \/ Tick
    \/ currencyLimits
    \/ ticker
    \/ lastPrice
    \/ convert
    \/ priceStats
    \/ ohlcv
    \/ orderBook
    \/ postAuthCall
    \/ balance
    \/ openOrders
    \/ activeOrdersStatus
    \/ openPositions
    \/ closePosition
    \/ openPosition
    \/ \E i \in 1..Len(calls) : \E payload \in Payloads : TransportReplies(i, payload)
    \/ \E i \in 1..Len(calls) : TransportFails(i)
    \/ \E i \in 1..Len(calls) : RetryAttempt(i)

Spec == Init /\ [][Next]_vars

(***************************************************************************)
(* One call at a time on a client built with one of several retry          *)
(* policies, the default one among them, so that a call goes through all   *)
(* the retries of its policy.                                              *)
(***************************************************************************)
\* retryOptions as a caller passes them; the empty mapping overrides nothing
RetryPolicies ==
    { <<>>,
      [retries |-> 3, factor |-> 3],
      [retries |-> 2, minTimeout |-> 1000],
      [retries |-> 4, maxTimeout |-> 2000],
      [retries |-> 2, factor |-> 1, minTimeout |-> 100, maxTimeout |-> 100] }

RetryCreationArgs ==
    {[CreationArgsWith(AllCredentials, 0) EXCEPT !.retryOptions = o] : o \in RetryPolicies}

RetryInit ==
    /\ client \in {Constructor(a, "default") : a \in RetryCreationArgs}
    /\ defaultReqOptions = DefaultReqOptions
    /\ now = 0
    /\ calls = <<>>
    /\ pin = Undefined
    /\ pout = NoCall

RetryNext ==
    \/ Tick
    \/ calls = <<>> /\ ticker
    \/ calls = <<>> /\ balance
    \/ \E i \in 1..Len(calls) : \E payload \in Payloads : TransportReplies(i, payload)
    \/ \E i \in 1..Len(calls) : TransportFails(i)
    \/ \E i \in 1..Len(calls) : RetryAttempt(i)

RetrySpec == RetryInit /\ [][RetryNext]_vars

(************************** Claims on the client ***************************)

\* the calls that handed a signed request to this.req
Signed(c) == c.attempts >= 1 /\ c.req.method = "POST"

SignedCalls == {i \in 1..Len(calls) : Signed(calls[i])}

\* what checkSignature of src/test.js computes from a decoded body
checkSignature(body) ==
    toUpperCase(hmacDigestHex(client.secret.v,
        body.nonce \o JsToString(client.clientId) \o body.key))

\* C1: every body sent by an authenticated call has the fields nonce, key and
\* signature, and its signature is the uppercase hex HMAC-SHA256, under the
\* secret, of the nonce of that body, the client id and the key of that body.
C1_SignatureMatchesBody ==
    \A i \in SignedCalls :
        /\ {"nonce", "key", "signature"} \subseteq DOMAIN calls[i].req.body
        /\ calls[i].req.body.signature = checkSignature(calls[i].req.body)

\* C2: caller parameters never override nonce or key: the nonce of a sent body
\* is the nonce generated for the call and its key is the client's key.
C2_CallerNeverOverrides ==
    \A i \in SignedCalls :
        /\ calls[i].req.body.nonce = NumToStr(calls[i].nonce)
        /\ calls[i].req.body.key = client.key.v

\* C3: no two authenticated calls of the client send the same nonce.
C3_NonceUsedOnce ==
    \A i, j \in SignedCalls :
        i # j => calls[i].req.body.nonce # calls[j].req.body.nonce

\* every attempt of call c so far failed
AllFailed(c) == c.log # <<>> /\ \A n \in 1..Len(c.log) : ~c.log[n].ok

\* C4: with any transport function, the default one or an injected one, a call
\* whose attempts all fail makes exactly retries + 1 attempts and then fails
\* with the failure of the last attempt.
C4_RetriesPlusOneAttempts ==
    \A i \in 1..Len(calls) :
        (calls[i].st = "failed" /\ AllFailed(calls[i])) =>
            /\ calls[i].attempts = client.retryParams.retries + 1
            /\ calls[i].err = AttemptError(client.retryParams.retries + 1)

\* call c ended as out
EndedAs(c, out) == c.st = out.st /\ c.err = out.err /\ SameValue(c.val, out.val)

\* C5: when attempts 1..k-1 of a call failed and attempt k succeeded, then
\* k <= retries + 1, exactly k attempts have been made, none is made after the
\* success, and the call has ended with what the method makes of the payload
\* of attempt k.
C5_FirstSuccessEndsCall ==
    \A i \in 1..Len(calls) : \A k \in 1..Len(calls[i].log) :
        calls[i].log[k].ok =>
            /\ k <= client.retryParams.retries + 1
            /\ \A n \in 1..(k - 1) : ~calls[i].log[n].ok
            /\ Len(calls[i].log) = k
            /\ calls[i].attempts = k
            /\ EndedAs(calls[i], Continue(calls[i].ep, calls[i].args, calls[i].log[k].payload))

\* a call whose first attempt failed and whose second, the one retry of the
\* policy, succeeded has returned the payload of the second attempt
C5_Witness ==
    \E i \in 1..Len(calls) :
        /\ client.retryParams.retries = 1
        /\ calls[i].ep = "openPositions"
        /\ Len(calls[i].log) = 2
        /\ ~calls[i].log[1].ok
        /\ calls[i].log[2].ok
        /\ calls[i].attempts = 2
        /\ calls[i].st = "returned"
        /\ calls[i].val.t = "arr"

\* the payload has an ok field and it is not 'ok'
NotOk(payload) ==
    /\ payload.t = "obj"
    /\ "ok" \in DOMAIN payload.v
    /\ ~IsString(payload.v.ok, <<"o", "k">>)

Absent(payload) == payload.t \in {"undefined", "null"}

EndpointCalls == {i \in 1..Len(calls) : calls[i].ep # "_postAuth"}

\* C6: on every endpoint and under every retry policy, a call whose transport
\* answers with a payload that is missing or whose ok field is not 'ok' fails
\* after exactly one attempt.
C6_RejectionFailsAfterOneAttempt ==
    \A i \in EndpointCalls :
        (/\ calls[i].log # <<>>
         /\ calls[i].log[1].ok
         /\ (Absent(calls[i].log[1].payload) \/ NotOk(calls[i].log[1].payload))) =>
            /\ calls[i].st = "failed"
            /\ calls[i].attempts = 1
            /\ Len(calls[i].log) = 1

AuthEndpoints ==
    {"balance", "openOrders", "activeOrdersStatus", "openPositions", "closePosition",
     "openPosition"}

\* C10: an authenticated endpoint returns a result only when the decoded
\* response is present and has no ok field other than 'ok'; otherwise it fails.
C10_AuthEndpointsValidate ==
    \A i \in 1..Len(calls) :
        (/\ calls[i].ep \in AuthEndpoints
         /\ calls[i].log # <<>>
         /\ calls[i].log[Len(calls[i].log)].ok
         /\ (\/ Absent(calls[i].log[Len(calls[i].log)].payload)
             \/ NotOk(calls[i].log[Len(calls[i].log)].payload))) =>
            calls[i].st = "failed"

(****************** The helpers applied to bounded inputs ******************)

MaxStrLen == 3
MaxArrLen == 2

Alphabet == {"1", "0", ".", "-", "B"}

\* strings longer than MaxStrLen that the claims and the tests name
LongStrings ==
    { <<"4", "0", "0", ".", "0", "0">>,
      <<"1", "3", "8", "3", "7", "0", "4", "0">>,
      <<"u", "d", "1", "0", "0", "0", "3", "6", "7", "2", "1">>,
      <<"n", "o", "t", "-", "a", "-", "n", "u", "m", "b", "e", "r">>,
      <<".", "1", "2", "3", "4", "5", "6", "7", "8", "9">>,
      <<"0", ".", "9", "9", "9", "9", "9", "9", "9", "9", "5">>,
      <<"1", "e", "-", "9">>,
      <<" ", "2", ".", "5", " ">>,
      <<"2", "0", "1", "7", "-", "0", "7", "-", "0", "1">> }

Strings == UNION {[1..k -> Alphabet] : k \in 0..MaxStrLen} \cup LongStrings

NestedLeaves ==
    { Str(<<"1", ".", "5">>), Str(<<"B", "T", "C">>), Null, Bool(FALSE), JsInt(7) }

Leaves ==
    {Str(s) : s \in Strings} \cup {Null, Bool(TRUE), Bool(FALSE), JsInt(7), Num(25, -1), NaN}

FlatArrays == {Arr(s) : s \in UNION {[1..k -> NestedLeaves] : k \in 0..MaxArrLen}}

Members ==
    NestedLeaves \cup { Arr(<<Str(<<"2">>), Null>>), Obj([c |-> Str(<<"3", "B">>)]) }

Objects ==
    {Obj([a |-> x]) : x \in Members}
        \cup {Obj([a |-> x, b |-> y]) : x \in Members, y \in Members}
        \cup {Arr(<<Obj([a |-> x]), x>>) : x \in Members}

\* decoded payloads, and undefined (an argument that was not supplied)
PureInputs == Leaves \cup FlatArrays \cup Objects \cup {Undefined}

PureInit ==
    /\ pin \in PureInputs
    /\ pout = NoCall
    /\ client = [req |-> "none"]
    /\ defaultReqOptions = [baseUrl |-> "", headers |-> <<>>, json |-> TRUE]
    /\ now = 0
    /\ calls = <<>>

CallParseObjectStrings ==
    /\ pout.fn = "none"
    /\ pout' = [fn |-> "parseObjectStrings", out |-> parseObjectStrings(pin)]
    /\ UNCHANGED <<pin, client, defaultReqOptions, now, calls>>

CallMaxDpStr ==
    /\ pout.fn = "none"
    /\ pin.t \in {"str", "num", "undefined"}
    /\ pout' = [fn |-> "maxDpStr", out |-> maxDpStr(pin, DefaultDp)]
    /\ UNCHANGED <<pin, client, defaultReqOptions, now, calls>>

PureNext == CallParseObjectStrings \/ CallMaxDpStr

PureSpec == PureInit /\ [][PureNext]_vars

(************************* Claims on the helpers **************************)

\* only white space from position i on
OnlySpaces(s, i) == \A j \in i..Len(s) : s[j] = " "

\* the whole string, white space at its ends aside, is one decimal literal
IsNumericString(s) ==
    LET sc == ScanNumber(s) IN sc.ok /\ OnlySpaces(s, sc.last + 1)

\* b has the shape of a: sequences position by position, mappings key by key,
\* a string leaf stays a leaf (itself or a number), any other leaf is unchanged
RECURSIVE SameShape(_, _)
SameShape(a, b) ==
    IF a.t = "arr"
    THEN /\ b.t = "arr"
         /\ Len(b.v) = Len(a.v)
         /\ \A i \in 1..Len(a.v) : SameShape(a.v[i], b.v[i])
    ELSE IF a.t = "obj"
    THEN /\ b.t = "obj"
         /\ DOMAIN b.v = DOMAIN a.v
         /\ \A k \in DOMAIN a.v : SameShape(a.v[k], b.v[k])
    ELSE IF a.t = "str"
    THEN SameValue(b, a) \/ (b.t = "num" /\ ~b.v.nan)
    ELSE SameValue(b, a)

\* C7: parseObjectStrings(P) has the shape of P: every sequence keeps its length
\* and the order of its elements, every mapping its key set, and every leaf
\* that is not a string is returned unchanged.
C7_ShapePreserved ==
    pout.fn = "parseObjectStrings" => SameShape(pin, pout.out)

\* a nested payload (a mapping holding a sequence with a numeric string and a
\* null) has been normalised, and the numeric string became a number
C7_Witness ==
    /\ pout.fn = "parseObjectStrings"
    /\ pin.t = "obj"
    /\ DOMAIN pin.v = {"a", "b"}
    /\ pin.v.a.t = "arr"
    /\ pin.v.b.t = "null"
    /\ pout.out.v.a.v[1].t = "num"
    /\ pout.out.v.a.v[2].t = "null"

\* C8: parseObjectStrings turns a leaf string into its numeric value exactly
\* when the whole string is a syntactically valid number, and returns every
\* other string unchanged.
C8_NumericExactlyWhenValid ==
    (pout.fn = "parseObjectStrings" /\ pin.t = "str") =>
        IF IsNumericString(pin.v)
        THEN SameValue(pout.out, parseFloat(pin))
        ELSE SameValue(pout.out, pin)

\* the number of characters after the decimal point of s
FracDigits(s) ==
    IF \E i \in 1..Len(s) : s[i] = "."
    THEN Len(s) - (CHOOSE i \in 1..Len(s) : s[i] = "." /\ \A j \in 1..(i - 1) : s[j] # ".")
    ELSE 0

\* C9: for a string or a number x, maxDpStr(x, 8) has at most 8 fractional
\* digits when x parses as a number, and is x itself when it does not.
C9_MaxEightFractionDigits ==
    (pout.fn = "maxDpStr" /\ pin.t \in {"str", "num"}) =>
        IF IsNaN(parseFloat(pin))
        THEN SameValue(pout.out, pin)
        ELSE pout.out.t = "str" /\ FracDigits(pout.out.v) <= DefaultDp

\* a string with nine fractional digits has been formatted, and rounded to eight
C9_Witness ==
    /\ pout.fn = "maxDpStr"
    /\ pin.t = "str"
    /\ FracDigits(pin.v) = 9
    /\ ~IsNaN(parseFloat(pin))
    /\ FracDigits(pout.out.v) = 8

\* a string that is no number has been handed to maxDpStr and came back as it was
C9_WitnessNotANumber ==
    /\ pout.fn = "maxDpStr"
    /\ pin.t = "str"
    /\ Len(pin.v) = 12
    /\ SameValue(pout.out, pin)

(********************* Claims on the endpoint methods **********************)

\* the attempt that ended call c was answered, and with this payload
LastAnswered(c) == c.log # <<>> /\ c.log[Len(c.log)].ok

LastPayload(c) == c.log[Len(c.log)].payload

\* C11: on every endpoint, a call that fails because the payload it received is
\* missing or has an ok field that is not 'ok' fails with an error whose data
\* property is that payload.
C11_RejectionCarriesPayload ==
    \A i \in EndpointCalls :
        (/\ LastAnswered(calls[i])
         /\ Absent(LastPayload(calls[i])) \/ NotOk(LastPayload(calls[i]))
         /\ calls[i].st = "failed") =>
            SameValue(calls[i].val, LastPayload(calls[i]))

\* the field that lastPrice and convert extract
ExtractedField(ep) == IF ep = "lastPrice" THEN "lprice" ELSE "amnt"

\* C12: lastPrice and convert, answered with a mapping that is not a rejection
\* and has no data field, return the number read from lprice or amnt whenever
\* the field is present, a zero included, and fail with 'Unexpected response'
\* only when the field is absent.
C12_ExtractedFieldWhateverItsValue ==
    \A i \in 1..Len(calls) :
        (/\ calls[i].ep \in {"lastPrice", "convert"}
         /\ LastAnswered(calls[i])
         /\ LastPayload(calls[i]).t = "obj"
         /\ ~NotOk(LastPayload(calls[i]))
         /\ "data" \notin DOMAIN LastPayload(calls[i]).v) =>
            IF ExtractedField(calls[i].ep) \in DOMAIN LastPayload(calls[i]).v
            THEN EndedAs(calls[i],
                    Returned(parseFloat(LastPayload(calls[i]).v[ExtractedField(calls[i].ep)])))
            ELSE EndedAs(calls[i], Failed("Unexpected response", Undefined))

\* the calls of openPosition that handed a request to this.req
OpenPositionCalls == {i \in SignedCalls : calls[i].ep = "openPosition"}

\* s without the zeros at its end
RECURSIVE StripZeros(_)
StripZeros(s) ==
    IF s # <<>> /\ s[Len(s)] = "0" THEN StripZeros(SubSeq(s, 1, Len(s) - 1)) ELSE s

\* s is the number x written with exactly eight fractional digits
IsEightDp(s, x) ==
    FracDigits(s) = DefaultDp /\ SameValue(parseFloat(Str(StripZeros(s))), x)

\* the body b has the fields the arguments a of openPosition ask for
OpenPositionBodyAsStated(a, b) ==
    /\ b.symbol = JsToString(Default(Get(a, "symbol"), client.ccy1))
    /\ b.msymbol = JsToString(Default(Get(a, "msymbol"), client.ccy1))
    /\ b.ptype = toLowerCase(Default(Get(a, "ptype"), Str(<<"l", "o", "n", "g">>))).v
    /\ b.anySlippage = (IF SameValue(Get(a, "anySlippage"), Bool(FALSE))
                        THEN <<"f", "a", "l", "s", "e">> ELSE <<"t", "r", "u", "e">>)
    /\ b.leverage = NumToStr(Default(Get(a, "leverage"), JsInt(3)))
    /\ IsEightDp(b.amount, Get(a, "amount"))
    /\ IsEightDp(b.eoprice, Get(a, "eoprice"))
    /\ Truthy(Get(a, "stopLossPrice")) => IsEightDp(b.stopLossPrice, Get(a, "stopLossPrice"))

C13_WitnessDefaults ==
    \E i \in OpenPositionCalls :
        /\ "ptype" \notin DOMAIN calls[i].args.v
        /\ calls[i].req.body.amount = <<"2", ".", "5", "0", "0", "0", "0", "0", "0", "0">>
        /\ calls[i].req.body.ptype = <<"l", "o", "n", "g">>
        /\ calls[i].req.body.anySlippage = <<"f", "a", "l", "s", "e">>
        /\ calls[i].req.body.leverage = <<"3">>
        /\ calls[i].req.body.symbol = <<"U", "S", "D">>
        /\ calls[i].req.body.msymbol = <<"B", "T", "C">>

\* C14: when openPosition is called without a stopLossPrice, the body it sends
\* has no stopLossPrice field.
C14_StopLossOmitted ==
    \A i \in OpenPositionCalls :
        "stopLossPrice" \notin DOMAIN calls[i].args.v =>
            "stopLossPrice" \notin DOMAIN calls[i].req.body

\* the path pattern of a public pair endpoint, the date of ohlcv filled in
PathPattern(ep, args) ==
    CASE ep = "ticker" -> "ticker"
      [] ep = "lastPrice" -> "last_price"
      [] ep = "orderBook" -> "order_book"
      [] ep = "ohlcv" -> "ohlcv/hd/" \o Text(Get(args, "dateString").v)

\* the currency the caller passed as k, or else the client's
CcyOf(args, k) == IF Truthy(Get(args, k)) THEN Get(args, k).v ELSE client[k].v

\* C15: ticker, lastPrice, orderBook and ohlcv request the path
\* pattern/ccy1/ccy2, with the currencies of the call when the caller passed
\* them and those of the client otherwise.
C15_PublicPairPaths ==
    \A i \in 1..Len(calls) :
        calls[i].ep \in {"ticker", "lastPrice", "orderBook", "ohlcv"} =>
            calls[i].req.url = PathPattern(calls[i].ep, calls[i].args)
                                \o "/" \o Text(CcyOf(calls[i].args, "ccy1"))
                                \o "/" \o Text(CcyOf(calls[i].args, "ccy2"))

\* the methods that sign their request
SigningMethods == AuthEndpoints \cup {"convert", "priceStats", "_postAuth"}

CredentialMissing == \E k \in {"clientId", "key", "secret"} : ~Truthy(client[k])

\* C16: on a client that lacks clientId, key or secret, a call of a method
\* that signs its request fails when it is made, and hands no request to the
\* transport.
C16_MissingCredentialFails ==
    \A i \in 1..Len(calls) :
        (calls[i].ep \in SigningMethods /\ CredentialMissing) =>
            /\ calls[i].st = "failed"
            /\ calls[i].sent = <<>>

\* C17: a call returns a result only when the attempt that ended it was
\* answered with a payload that is present and is no rejection, and, for a
\* method that signs, when the credentials are complete: a call that threw
\* before its request, whose attempts all failed or whose payload is a
\* rejection does not return normally.
C17_NoFailureSwallowed ==
    \A i \in EndpointCalls :
        calls[i].st = "returned" =>
            /\ LastAnswered(calls[i])
            /\ ~Absent(LastPayload(calls[i]))
            /\ ~NotOk(LastPayload(calls[i]))
            /\ calls[i].ep \in SigningMethods => ~CredentialMissing

\* C18: all the attempts of a call hand the same request to the transport: an
\* authenticated call sends the same body, with the nonce and the signature of
\* its first attempt, in every retry.
C18_SameBodyEveryAttempt ==
    \A i \in 1..Len(calls) :
        /\ Len(calls[i].sent) = calls[i].attempts
        /\ \A n \in 1..Len(calls[i].sent) : calls[i].sent[n] = calls[i].sent[1]

\* an authenticated call made at time 0 failed once and was retried after the
\* clock had advanced; the retry carried the nonce and signature of time 0
C18_Witness ==
    \E i \in SignedCalls :
        /\ now = 1
        /\ Len(calls[i].sent) = 2
        /\ ~calls[i].log[1].ok
        /\ calls[i].st = "pending"
        /\ calls[i].sent[2].body.nonce = <<"0">>
        /\ calls[i].sent[2].body.signature = calls[i].sent[1].body.signature

\* the retry policy of the client is the default one overridden, field by
\* field, by one of the retryOptions
PolicyOverridesDefaults ==
    \E o \in RetryPolicies :
        /\ client.retryParams.retries = (IF "retries" \in DOMAIN o THEN o.retries ELSE 10)
        /\ client.retryParams.factor = (IF "factor" \in DOMAIN o THEN o.factor ELSE 2)
        /\ client.retryParams.minTimeout = (IF "minTimeout" \in DOMAIN o THEN o.minTimeout ELSE 500)
        /\ client.retryParams.maxTimeout = (IF "maxTimeout" \in DOMAIN o THEN o.maxTimeout ELSE 10000)

\* attempt n of call c failed and a retry was scheduled
Delayed(c, n) == n \in 1..Len(c.log) /\ c.log[n].delay # NoDelay

\* C19: the delay after failed attempt n is
\* min(maxTimeout, minTimeout * factor^(n-1)) under the default policy
\* overridden field by field by the retryOptions; every delay lies between
\* minTimeout and maxTimeout, and the delays of a call never decrease.
C19_BackoffDelays ==
    /\ PolicyOverridesDefaults
    /\ \A i \in 1..Len(calls) : \A n \in 1..Len(calls[i].log) :
        Delayed(calls[i], n) =>
            /\ ~calls[i].log[n].ok
            /\ n <= client.retryParams.retries
            /\ calls[i].log[n].delay =
                    Min(client.retryParams.maxTimeout,
                        client.retryParams.minTimeout * Power(client.retryParams.factor, n - 1))
            /\ calls[i].log[n].delay >= client.retryParams.minTimeout
            /\ calls[i].log[n].delay <= client.retryParams.maxTimeout
            /\ Delayed(calls[i], n + 1) => calls[i].log[n].delay <= calls[i].log[n + 1].delay

\* under the default policy a call failed six times: the delays were 500,
\* 1000, 2000, 4000, 8000 and then the cap of 10000
C19_Witness ==
    \E i \in 1..Len(calls) :
        /\ client.retryParams.retries = 10
        /\ Len(calls[i].log) >= 6
        /\ calls[i].log[1].delay = 500
        /\ calls[i].log[2].delay = 1000
        /\ calls[i].log[5].delay = 8000
        /\ calls[i].log[6].delay = 10000

\* v holds a string, at any depth, that is a valid number
RECURSIVE HasNumericString(_)
HasNumericString(v) ==
    CASE v.t = "str" -> IsNumericString(v.v)
      [] v.t = "arr" -> \E n \in 1..Len(v.v) : HasNumericString(v.v[n])
      [] v.t = "obj" -> \E k \in DOMAIN v.v : HasNumericString(v.v[k])
      [] OTHER -> FALSE

\* C20: the value an endpoint method returns is normalised: it holds no string
\* that is a valid number, whatever the method and its arguments.
C20_ReturnedValueNormalised ==
    \A i \in EndpointCalls :
        calls[i].st = "returned" => ~HasNumericString(calls[i].val)

\* C21: no call changes the configuration of the client (credentials,
\* currencies, retry policy, request function) or the default request
\* options of the module, whose headers never get a Content-Length.
C21_SharedStateUnchanged ==
    /\ [](/\ defaultReqOptions = DefaultReqOptions
          /\ "ContentLength" \notin DOMAIN defaultReqOptions.headers)
    /\ [][client' = client /\ defaultReqOptions' = defaultReqOptions]_vars

\* two POST requests with a Content-Length header were made, one call
\* returned and one failed, and the defaults are those of the module
C21_Witness ==
    /\ Len(calls) = 2
    /\ \A i \in 1..2 :
        /\ calls[i].req.method = "POST"
        /\ "ContentLength" \in DOMAIN calls[i].req.headers
    /\ calls[1].st = "returned"
    /\ calls[2].st = "failed"
    /\ defaultReqOptions = DefaultReqOptions

====
